---------------------------- MODULE Spec2Model ----------------------------
(***************************************************************************)
(* Model of src/data_quality/validators/base_validator.py (DataValidator). *)
(*                                                                         *)
(* Representation                                                          *)
(*  - A Python str that the code inspects character by character (a dtype  *)
(*    name) is a sequence of one-character strings; a str that the code    *)
(*    only compares for equality (a column name, a suite name, a dict key) *)
(*    is a TLA+ string.                                                    *)
(*  - A Python dict is a function; `k in d` is k \in DOMAIN d. A dict whose*)
(*    iteration order the code depends on (expected_dtypes) is the sequence*)
(*    of its items.                                                        *)
(*  - A DataFrame is [columns, nrows, col]: the column labels in order, the*)
(*    length of the index, and for each label its dtype, its timezone and  *)
(*    its values. None is the value NoneDF.                                *)
(*  - A call's outcome is [kind |-> "return", value |-> v] or              *)
(*    [kind |-> "raise", exc |-> name of the exception class]; the caller  *)
(*    holds it in `ret`, tagged with the method called.                    *)
(*                                                                         *)
(* Specifications                                                          *)
(*  - Spec and SpecSession are the same object and the same methods, any   *)
(*    number of calls in any order; they differ in the arguments the       *)
(*    caller draws. Spec draws the checks' arguments from the wide sets;   *)
(*    SpecSession draws the report's and the suite store's.                *)
(***************************************************************************)
EXTENDS Integers, Sequences, FiniteSets, TLC

VARIABLES
    context_suites,      \* self.context: the suites stored in the data context
    validation_results,  \* self.validation_results
    pc,                  \* "no_object" | "idle" | "returned": the caller's position
    call,                \* the invocation made last, with its arguments
    ret,                 \* its outcome
    report_sink          \* the file at output_path: what was last written there

vars == <<context_suites, validation_results, pc, call, ret, report_sink>>

---------------------------------------------------------------------------
(* Generic helpers *)

Range(s) == {s[i] : i \in 1..Len(s)}

SeqsUpTo(S, n) == UNION {[1..k -> S] : k \in 0..n}

\* Python's `needle in haystack` for str: needle occurs as a contiguous run.
Contains(haystack, needle) ==
    \E i \in 0..(Len(haystack) - Len(needle)) :
        \A j \in 1..Len(needle) : haystack[i + j] = needle[j]

---------------------------------------------------------------------------
(* dtype names, spelled out as character sequences *)

s_int       == <<"i","n","t">>
s_float     == <<"f","l","o","a","t">>
s_string    == <<"s","t","r","i","n","g">>
s_datetime  == <<"d","a","t","e","t","i","m","e">>
s_bool      == <<"b","o","o","l">>
s_boolean   == <<"b","o","o","l","e","a","n">>
s_object    == <<"o","b","j","e","c","t">>
s_category  == <<"c","a","t","e","g","o","r","y">>
s_int8      == <<"i","n","t","8">>
s_int16     == <<"i","n","t","1","6">>
s_int32     == <<"i","n","t","3","2">>
s_int64     == <<"i","n","t","6","4">>
s_Int8      == <<"I","n","t","8">>
s_Int16     == <<"I","n","t","1","6">>
s_Int32     == <<"I","n","t","3","2">>
s_Int64     == <<"I","n","t","6","4">>
s_uint8     == <<"u","i","n","t","8">>
s_float16   == <<"f","l","o","a","t","1","6">>
s_float32   == <<"f","l","o","a","t","3","2">>
s_float64   == <<"f","l","o","a","t","6","4">>
s_Float32   == <<"F","l","o","a","t","3","2">>
s_Float64   == <<"F","l","o","a","t","6","4">>
s_datetime64 == <<"d","a","t","e","t","i","m","e","6","4">>
s_datetime64_ns == s_datetime64 \o <<"[","n","s","]">>
s_datetime64_ns_UTC == s_datetime64 \o <<"[","n","s",","," ","U","T","C","]">>
s_timedelta64_ns == <<"t","i","m","e","d","e","l","t","a","6","4","[","n","s","]">>
s_empty     == <<>>

---------------------------------------------------------------------------
(* _dtype_compatible *)

\* dtype_mappings: the families in the dict's order, each with its list.
dtype_mappings ==
    << [family |-> s_int,
        dtypes |-> <<s_int8, s_int16, s_int32, s_int64,
                     s_Int8, s_Int16, s_Int32, s_Int64>>],
       [family |-> s_float,
        dtypes |-> <<s_float16, s_float32, s_float64, s_Float32, s_Float64>>],
       [family |-> s_string,
        dtypes |-> <<s_object, s_string, s_category>>],
       [family |-> s_datetime,
        dtypes |-> <<s_datetime64, s_datetime64_ns, s_datetime64_ns_UTC>>],
       [family |-> s_bool,
        dtypes |-> <<s_bool, s_boolean>>] >>

\* A plausible slip: the family test by equality instead of by substring.
AnyDtypeIn_eq(dtypes, actual) ==
    \E k \in 1..Len(dtypes) : actual = dtypes[k]

\* any(dtype in actual for dtype in dtypes)
AnyDtypeIn(dtypes, actual) ==
    \E k \in 1..Len(dtypes) : Contains(actual, dtypes[k])

\* The loop of lines 325-329, from family number i on.
RECURSIVE DtypeLoop(_, _, _)
DtypeLoop(i, actual, expected) ==
    IF i > Len(dtype_mappings) THEN actual = expected
    ELSE IF expected = dtype_mappings[i].family
         THEN AnyDtypeIn(dtype_mappings[i].dtypes, actual)
         ELSE DtypeLoop(i + 1, actual, expected)

_dtype_compatible(actual, expected) == DtypeLoop(1, actual, expected)

---------------------------------------------------------------------------
(* DataFrames and outcomes *)

NoneDF == [is_none |-> TRUE]

\* pd.DataFrame with the labels `columns`, an index of length nrows, and per
\* label [dtype, tz, values].
Frame(columns, nrows, col) ==
    [is_none |-> FALSE, columns |-> columns, nrows |-> nrows, col |-> col]

\* `name in df.columns`
HasColumn(df, name) == name \in Range(df.columns)

\* df.empty: some axis has length 0.
IsEmpty(df) == df.nrows = 0 \/ Len(df.columns) = 0

\* No call is in progress, and no outcome is held.
NoCall == [op |-> "none"]
NoRet  == [op |-> "none", kind |-> "none"]

Return(v) == [kind |-> "return", value |-> v]
Raise(e)  == [kind |-> "raise", exc |-> e]

\* The outcome o as the caller holds it: tagged with the method that gave it.
Outcome(op, o) ==
    IF o.kind = "raise"
    THEN [op |-> op, kind |-> "raise", exc |-> o.exc]
    ELSE [op |-> op, kind |-> "return", value |-> o.value]

---------------------------------------------------------------------------
(* validate_schema *)

\* Lines 39-45: the early return.
EmptySchemaResult(now) ==
    [timestamp |-> now, validation_type |-> "schema", passed |-> FALSE,
     errors |-> << [type |-> "empty_dataframe",
                    message |-> "DataFrame is None or empty"] >>]

\* A plausible slip: the difference taken the wrong way round.
MissingColumns_swapped(df, expected_columns) ==
    Range(df.columns) \ Range(expected_columns)

\* Line 55. list(missing_columns) has the set's arbitrary order: kept as a set.
MissingColumns(df, expected_columns) ==
    Range(expected_columns) \ Range(df.columns)

\* Line 64.
UnexpectedColumns(df, expected_columns) ==
    Range(df.columns) \ Range(expected_columns)

\* Lines 56-61.
RecordMissing(res, missing) ==
    IF missing # {}
    THEN [res EXCEPT !.passed = FALSE,
                     !.errors = @ \o << [type |-> "missing_columns",
                                         columns |-> missing] >>]
    ELSE res

\* A plausible slip: extra columns treated as a failure.
RecordUnexpected_failing(res, unexpected) ==
    IF unexpected # {}
    THEN [res EXCEPT !.passed = FALSE,
                     !.errors = @ \o << [type |-> "unexpected_columns",
                                         columns |-> unexpected] >>]
    ELSE res

\* Lines 65-69: recorded, passed untouched.
RecordUnexpected(res, unexpected) ==
    IF unexpected # {}
    THEN [res EXCEPT !.errors = @ \o << [type |-> "unexpected_columns",
                                         columns |-> unexpected] >>]
    ELSE res

\* Lines 72-81: the loop over expected_dtypes.items(), from item i on.
\* An item is <<col, expected_dtype>>.
RECURSIVE DtypeMismatches(_, _, _)
DtypeMismatches(df, expected_dtypes, i) ==
    IF i > Len(expected_dtypes) THEN <<>>
    ELSE LET c        == expected_dtypes[i][1]
             expected == expected_dtypes[i][2]
             rest     == DtypeMismatches(df, expected_dtypes, i + 1)
         IN  IF HasColumn(df, c) /\ ~_dtype_compatible(df.col[c].dtype, expected)
             THEN << [column |-> c, expected |-> expected,
                      actual |-> df.col[c].dtype] >> \o rest
             ELSE rest

\* A plausible slip: the mismatches recorded, the flag forgotten.
RecordMismatches_noflag(res, dtype_mismatches) ==
    IF dtype_mismatches # <<>>
    THEN [res EXCEPT !.errors = @ \o << [type |-> "dtype_mismatch",
                                         mismatches |-> dtype_mismatches] >>]
    ELSE res

\* Lines 83-88.
RecordMismatches(res, dtype_mismatches) ==
    IF dtype_mismatches # <<>>
    THEN [res EXCEPT !.passed = FALSE,
                     !.errors = @ \o << [type |-> "dtype_mismatch",
                                         mismatches |-> dtype_mismatches] >>]
    ELSE res

\* Lines 39-90. `now` is the reading of datetime.now(timezone.utc).
validate_schema(df, expected_columns, expected_dtypes, now) ==
    IF df.is_none \/ IsEmpty(df)
    THEN Return(EmptySchemaResult(now))
    ELSE LET r0 == [timestamp |-> now, validation_type |-> "schema",
                    passed |-> TRUE, errors |-> <<>>]
             r1 == RecordMissing(r0, MissingColumns(df, expected_columns))
             r2 == RecordUnexpected(r1, UnexpectedColumns(df, expected_columns))
             r3 == RecordMismatches(r2, DtypeMismatches(df, expected_dtypes, 1))
         IN  Return(r3)

---------------------------------------------------------------------------
(* Inputs of the schema check *)

T0 == 1000000          \* the clock reading of the run, in seconds since the epoch

NoFile == [exists |-> FALSE]

\* The column labels a schema frame may carry, in the frame's order.
SchemaLabels == <<"a", "b">>
\* The names an expected schema may mention; "c" is in no frame.
SchemaNames == {"a", "b", "c"}
ActualDtypes == {s_int32, s_float64}
ExpectedDtypeNames == {s_int, s_int32}

\* The strings _dtype_compatible is called on directly.
ActualPool ==
    {s_int32, s_float64, s_uint8, s_Int64, s_object, s_category, s_bool,
     s_boolean, s_datetime64_ns, s_datetime64_ns_UTC, s_timedelta64_ns,
     s_int, s_string, s_empty}
ExpectedPool ==
    {s_int, s_float, s_string, s_datetime, s_bool,
     s_int32, s_object, s_Int64, s_uint8, s_empty}
MaxExpected == 2       \* longest expected_columns list

RECURSIVE SubSeqOf(_, _)
\* The subsequence of s whose elements are in S.
SubSeqOf(s, S) ==
    IF s = <<>> THEN <<>>
    ELSE (IF Head(s) \in S THEN <<Head(s)>> ELSE <<>>) \o SubSeqOf(Tail(s), S)

SchemaFrames ==
    {NoneDF} \cup
    { Frame(SubSeqOf(SchemaLabels, S), n,
            [c \in S |-> [dtype |-> d[c], tz |-> "naive",
                          values |-> [i \in 1..n |-> 0]]]) :
        S \in SUBSET Range(SchemaLabels),
        n \in {0, 1},
        d \in [Range(SchemaLabels) -> ActualDtypes] }

\* expected_dtypes: the items of a dict (distinct keys), in insertion order.
ExpectedDtypeDicts ==
    { items \in SeqsUpTo({"a", "c"} \X ExpectedDtypeNames, 2) :
        \A i, j \in 1..Len(items) : i # j => items[i][1] # items[j][1] }

---------------------------------------------------------------------------
(* Numbers: the floats the statistics produce                              *)
(*   [nan, root, num, den]: NaN, or num/den (den > 0, lowest terms), or,   *)
(*   with root, the square root of num/den.                                *)

RECURSIVE GCD(_, _)
GCD(a, b) == IF b = 0 THEN a ELSE GCD(b, a % b)

Abs(n) == IF n < 0 THEN -n ELSE n

NaN == [nan |-> TRUE, root |-> FALSE, num |-> 0, den |-> 1]

Rat(n, d) ==
    LET g == GCD(Abs(n), d)
    IN  [nan |-> FALSE, root |-> FALSE, num |-> n \div g, den |-> d \div g]

SqrtOf(n, d) ==
    LET g == GCD(Abs(n), d)
    IN  [nan |-> FALSE, root |-> TRUE, num |-> n \div g, den |-> d \div g]

\* Python's `a < b` on floats, b a plain number: False whenever one is NaN.
Lt(a, b) ==
    IF a.nan \/ b.nan THEN FALSE
    ELSE IF a.root
         THEN b.num > 0 /\ a.num * b.den * b.den < b.num * b.num * a.den
         ELSE a.num * b.den < b.num * a.den

\* Python's `a > b` on floats, b a plain number: False whenever one is NaN.
Gt(a, b) ==
    IF a.nan \/ b.nan THEN FALSE
    ELSE IF a.root
         THEN b.num < 0 \/ a.num * b.den * b.den > b.num * b.num * a.den
         ELSE a.num * b.den > b.num * a.den

---------------------------------------------------------------------------
(* Series statistics (pandas, skipna): cells are [null, v] *)

Cell(v)  == [null |-> FALSE, v |-> v]
NullCell == [null |-> TRUE, v |-> 0]

RECURSIVE NonNull(_)
NonNull(values) ==
    IF values = <<>> THEN <<>>
    ELSE (IF Head(values).null THEN <<>> ELSE <<Head(values).v>>)
         \o NonNull(Tail(values))

RECURSIVE Sum(_)
Sum(xs) == IF xs = <<>> THEN 0 ELSE Head(xs) + Sum(Tail(xs))

RECURSIVE SumSq(_)
SumSq(xs) == IF xs = <<>> THEN 0 ELSE Head(xs) * Head(xs) + SumSq(Tail(xs))

SetMin(S) == CHOOSE m \in S : \A x \in S : m <= x
SetMax(S) == CHOOSE m \in S : \A x \in S : m >= x

\* Series.mean(): NaN when no value is present.
SeriesMean(values) ==
    LET xs == NonNull(values)
    IN  IF xs = <<>> THEN NaN ELSE Rat(Sum(xs), Len(xs))

\* Series.std(), ddof=1: NaN with fewer than two values present.
SeriesStd(values) ==
    LET xs == NonNull(values)
        n  == Len(xs)
    IN  IF n < 2 THEN NaN
        ELSE SqrtOf(n * SumSq(xs) - Sum(xs) * Sum(xs), n * (n - 1))

SeriesMin(values) ==
    LET xs == NonNull(values)
    IN  IF xs = <<>> THEN NaN ELSE Rat(SetMin(Range(xs)), 1)

SeriesMax(values) ==
    LET xs == NonNull(values)
    IN  IF xs = <<>> THEN NaN ELSE Rat(SetMax(Range(xs)), 1)

\* Series.isnull().mean(): NaN on an empty series.
SeriesNullRate(values) ==
    IF values = <<>> THEN NaN
    ELSE Rat(Len(values) - Len(NonNull(values)), Len(values))

---------------------------------------------------------------------------
(* validate_statistical_properties *)

\* The keys of `stats`, in the dict's order (lines 177-183).
StatNames == <<"mean", "std", "min", "max", "null_rate">>

\* Lines 177-183.
ColumnStats(df, c) ==
    LET values == df.col[c].values
    IN  [mean      |-> SeriesMean(values),
         std       |-> SeriesStd(values),
         min       |-> SeriesMin(values),
         max       |-> SeriesMax(values),
         null_rate |-> SeriesNullRate(values)]

\* f"{stat_name}_min" and f"{stat_name}_max"
FmtKey(stat_name, suffix) ==
    CASE stat_name = "mean"      /\ suffix = "_min" -> "mean_min"
      [] stat_name = "mean"      /\ suffix = "_max" -> "mean_max"
      [] stat_name = "std"       /\ suffix = "_min" -> "std_min"
      [] stat_name = "std"       /\ suffix = "_max" -> "std_max"
      [] stat_name = "min"       /\ suffix = "_min" -> "min_min"
      [] stat_name = "min"       /\ suffix = "_max" -> "min_max"
      [] stat_name = "max"       /\ suffix = "_min" -> "max_min"
      [] stat_name = "max"       /\ suffix = "_max" -> "max_max"
      [] stat_name = "null_rate" /\ suffix = "_min" -> "null_rate_min"
      [] stat_name = "null_rate" /\ suffix = "_max" -> "null_rate_max"

\* A plausible slip: the lower bound made inclusive.
BelowMin_inclusive(stat_value, bound) ==
    Lt(stat_value, bound) \/ stat_value = bound

\* Line 191.
BelowMin(stat_value, bound) == Lt(stat_value, bound)

\* A plausible slip: `not (value <= bound)`, which is True for NaN.
AboveMax_notle(stat_value, bound) == stat_value.nan \/ bound.nan \/ Gt(stat_value, bound)

\* Line 200.
AboveMax(stat_value, bound) == Gt(stat_value, bound)

\* Lines 190-206: one pass of the loop over stats.items().
StatViolations(stat_name, stat_value, col_thresholds) ==
    LET kmin == FmtKey(stat_name, "_min")
        kmax == FmtKey(stat_name, "_max")
    IN  (IF kmin \in DOMAIN col_thresholds /\ BelowMin(stat_value, col_thresholds[kmin])
         THEN << [stat |-> stat_name, value |-> stat_value,
                  threshold |-> col_thresholds[kmin], type |-> "below_min"] >>
         ELSE <<>>)
        \o
        (IF kmax \in DOMAIN col_thresholds /\ AboveMax(stat_value, col_thresholds[kmax])
         THEN << [stat |-> stat_name, value |-> stat_value,
                  threshold |-> col_thresholds[kmax], type |-> "above_max"] >>
         ELSE <<>>)

\* Lines 187-206: the loop over stats.items(), from statistic number k on.
RECURSIVE ColumnViolations(_, _, _)
ColumnViolations(stats, col_thresholds, k) ==
    IF k > Len(StatNames) THEN <<>>
    ELSE StatViolations(StatNames[k], stats[StatNames[k]], col_thresholds)
         \o ColumnViolations(stats, col_thresholds, k + 1)

\* Lines 208-213.
RecordViolations(res, c, violations) ==
    IF violations # <<>>
    THEN [res EXCEPT !.passed = FALSE,
                     !.violations = @ \o << [column |-> c,
                                             violations |-> violations] >>]
    ELSE res

\* Lines 173-213: the loop over numeric_columns, from element i on, df not None.
RECURSIVE StatLoop(_, _, _, _, _)
StatLoop(res, df, numeric_columns, thresholds, i) ==
    IF i > Len(numeric_columns) THEN res
    ELSE LET c == numeric_columns[i]
         IN  IF ~HasColumn(df, c)
             THEN StatLoop(res, df, numeric_columns, thresholds, i + 1)
             ELSE IF c \in DOMAIN thresholds
                  THEN StatLoop(
                         RecordViolations(res, c,
                           ColumnViolations(ColumnStats(df, c), thresholds[c], 1)),
                         df, numeric_columns, thresholds, i + 1)
                  ELSE StatLoop(res, df, numeric_columns, thresholds, i + 1)

\* Lines 166-215. With df None the first pass of the loop evaluates
\* df.columns on None: AttributeError; with no column to loop over the
\* dataset is never touched.
validate_statistical_properties(df, numeric_columns, thresholds, now) ==
    LET r0 == [timestamp |-> now, validation_type |-> "statistical",
               passed |-> TRUE, violations |-> <<>>]
    IN  IF numeric_columns = <<>> THEN Return(r0)
        ELSE IF df.is_none THEN Raise("AttributeError")
        ELSE Return(StatLoop(r0, df, numeric_columns, thresholds, 1))

---------------------------------------------------------------------------
(* Inputs of the statistical check *)

MaxRows == 2           \* longest column
MaxVal  == 2           \* cell values are 0..MaxVal, or null

Cells == {NullCell} \cup {Cell(v) : v \in 0..MaxVal}

StatLabels == <<"x", "y">>

StatFrames ==
    {NoneDF} \cup
    { Frame(SubSeqOf(StatLabels, S), Len(v),
            [c \in S |-> [dtype |-> s_float64, tz |-> "naive", values |-> v]]) :
        S \in SUBSET Range(StatLabels),
        v \in SeqsUpTo(Cells, MaxRows) }

\* "z" is in no frame; <<"x", "x">> names a column twice.
NumericColumnLists ==
    { <<>>, <<"x">>, <<"y">>, <<"x", "y">>, <<"z", "x">>, <<"x", "x">> }

Zero == Rat(0, 1)
One  == Rat(1, 1)

StatSubsets ==
    { {"mean"}, {"std"}, {"null_rate"}, {"min", "max"}, Range(StatNames) }

\* A threshold dict for one column: the lower bound lo and the upper bound
\* hi on each statistic of S; a bound that is not given is NaN here.
BoundsOn(S, lo, hi) ==
    LET kmin == IF lo.nan THEN {} ELSE {FmtKey(s, "_min") : s \in S}
        kmax == IF hi.nan THEN {} ELSE {FmtKey(s, "_max") : s \in S}
    IN  [k \in kmin \cup kmax |-> IF k \in kmin THEN lo ELSE hi]

ColumnThresholds ==
    { BoundsOn(S, lo, hi) : S \in StatSubsets, lo \in {NaN, One}, hi \in {NaN, Zero, One} }
    \cup { [k \in {"median_max"} |-> One] }

\* thresholds: no entry at all, an entry for "x" alone, or entries for "y".
ThresholdDicts ==
    { [c \in {"x"} |-> tx] : tx \in ColumnThresholds } \cup
    { [c \in D |-> IF c = "x" THEN BoundsOn(Range(StatNames), One, Zero)
                              ELSE BoundsOn({"mean"}, NaN, One)] :
        D \in { {}, {"y"}, {"x", "y"} } }

---------------------------------------------------------------------------
(* validate_freshness                                                      *)
(*   Instants are whole seconds. A cell of the timestamp column is         *)
(*   [kind, t]: "ts" a value that parses to the instant t, "nat" a missing *)
(*   value, "bad" a value pd.to_datetime cannot parse. The values of a     *)
(*   timezone-aware column are instants; those of a naive column are wall  *)
(*   clock readings.                                                       *)

SecondsPerHour == 3600
DefaultMaxStaleness == 24

TsCell(t) == [kind |-> "ts", t |-> t]
NaTCell   == [kind |-> "nat", t |-> 0]
BadCell   == [kind |-> "bad", t |-> 0]

NaT == [nat |-> TRUE, t |-> 0, tz |-> "naive"]
Timestamp(t, tz) == [nat |-> FALSE, t |-> t, tz |-> tz]

\* Line 247: pd.to_datetime raises on a value it cannot parse.
Parseable(values) == \A i \in 1..Len(values) : values[i].kind # "bad"

\* Line 250: Series.max() of the parsed column; NaT when no value is present.
LatestTimestamp(column) ==
    LET ts == {column.values[i].t : i \in {j \in 1..Len(column.values) :
                                             column.values[j].kind = "ts"}}
    IN  IF ts = {} THEN NaT ELSE Timestamp(SetMax(ts), column.tz)

\* Lines 253-256. now is the instant of the call; a naive pd.Timestamp.now()
\* is the local wall clock, local_offset seconds ahead of UTC. NaT.tz is None.
CurrentTime(latest_timestamp, now, local_offset) ==
    IF ~latest_timestamp.nat /\ latest_timestamp.tz # "naive"
    THEN Timestamp(now, latest_timestamp.tz)
    ELSE Timestamp(now + local_offset, "naive")

\* Line 259: (current_time - latest_timestamp).total_seconds() / 3600;
\* a difference with NaT is NaT, whose total_seconds() is NaN.
StalenessHours(current_time, latest_timestamp) ==
    IF latest_timestamp.nat THEN NaN
    ELSE Rat(current_time.t - latest_timestamp.t, SecondsPerHour)

\* A plausible slip: the limit made exclusive.
IsStale_inclusive(staleness_hours, max_staleness_hours) ==
    ~Lt(staleness_hours, Rat(max_staleness_hours, 1))

\* Line 268.
IsStale(staleness_hours, max_staleness_hours) ==
    Gt(staleness_hours, Rat(max_staleness_hours, 1))

\* Lines 233-272. The messages are kept as their template and arguments.
validate_freshness(df, timestamp_column, max_staleness_hours, now, local_offset) ==
    LET r0 == [timestamp |-> now, validation_type |-> "freshness",
               passed |-> TRUE, details |-> <<>>]
    IN  IF df.is_none THEN Raise("AttributeError")
        ELSE IF ~HasColumn(df, timestamp_column)
        THEN Return([r0 EXCEPT !.passed = FALSE,
                               !.details = [error |->
                                   [msg |-> "Timestamp column not found",
                                    column |-> timestamp_column]]])
        ELSE IF ~Parseable(df.col[timestamp_column].values)
        THEN Raise("ValueError")
        ELSE LET latest_timestamp == LatestTimestamp(df.col[timestamp_column])
                 current_time     == CurrentTime(latest_timestamp, now, local_offset)
                 staleness_hours  == StalenessHours(current_time, latest_timestamp)
                 details == [latest_timestamp    |-> latest_timestamp,
                             current_time        |-> current_time,
                             staleness_hours     |-> staleness_hours,
                             max_staleness_hours |-> max_staleness_hours]
             IN  IF IsStale(staleness_hours, max_staleness_hours)
                 THEN Return([r0 EXCEPT !.passed = FALSE,
                                        !.details = details @@ [error |->
                                            [msg |-> "Data is too old",
                                             staleness_hours |-> staleness_hours,
                                             max_staleness_hours |-> max_staleness_hours]]])
                 ELSE Return([r0 EXCEPT !.details = details])

---------------------------------------------------------------------------
(* Inputs of the freshness check *)

HourAgo == T0 - SecondsPerHour
DayAgo  == T0 - DefaultMaxStaleness * SecondsPerHour

TsCells ==
    {NaTCell, BadCell} \cup
    {TsCell(t) : t \in {DayAgo - 1, DayAgo, HourAgo - 1, HourAgo, T0}}

FreshFrames ==
    {NoneDF} \cup
    { Frame(<<"id">>, n, [c \in {"id"} |->
                [dtype |-> s_int64, tz |-> "naive", values |-> [i \in 1..n |-> Cell(0)]]]) :
        n \in 0..1 } \cup
    { Frame(<<"ts">>, Len(v), [c \in {"ts"} |->
                [dtype |-> IF tz = "naive" THEN s_datetime64_ns ELSE s_datetime64_ns_UTC,
                 tz |-> tz, values |-> v]]) :
        v \in SeqsUpTo(TsCells, MaxRows), tz \in {"naive", "UTC"} }

LocalOffsets == {0, SecondsPerHour}

---------------------------------------------------------------------------
(* The expectation-suite collaborator (great_expectations)                 *)
(*   The data context stores suites by name: context_suites maps a name to *)
(*   the list of its expectation configurations. What the collaborator does*)
(*   during one delegation is the environment's choice `env`:              *)
(*     fault    the step that raises, or "none";                           *)
(*     verdicts the success flag of each expectation on the batch;         *)
(*     shape    "ok", or the key missing from what validate() returns.     *)

None == [none |-> TRUE]

Drop(f, k) == [x \in DOMAIN f \ {k} |-> f[x]]

ExpectNotNull ==
    [expectation_type |-> "expect_column_values_to_not_be_null",
     kwargs |-> [column |-> "x"]]
ExpectUnique ==
    [expectation_type |-> "expect_column_values_to_be_unique",
     kwargs |-> [column |-> "x"]]

\* One per-expectation result of validator.validate().
ExpectationResult(config, ok, shape) ==
    LET full == [success |-> ok, expectation_config |-> config,
                 result |-> [unexpected_count |-> IF ok THEN 0 ELSE 1]]
    IN  IF shape = "no_expectation_config" THEN Drop(full, "expectation_config")
        ELSE full

\* What validator.validate() returns for the suite: one result per
\* expectation, run statistics, and success iff every expectation succeeded.
ValidationOutcome(suite, verdicts, shape) ==
    LET n    == Len(suite)
        good == Cardinality({i \in 1..n : verdicts[i]})
        full == [success |-> good = n,
                 statistics |-> [evaluated_expectations    |-> n,
                                 successful_expectations   |-> good,
                                 unsuccessful_expectations |-> n - good],
                 results |-> [i \in 1..n |->
                                ExpectationResult(suite[i], verdicts[i], shape)]]
    IN  IF shape \in {"success", "statistics", "results"} THEN Drop(full, shape)
        ELSE full

---------------------------------------------------------------------------
(* validate_data_quality *)

\* A plausible slip: the exception logged and raised again.
Caught_reraise(message) == Raise(message)

\* Lines 146-148: the handler of `except Exception`.
Caught(message) == Return(<<FALSE, [error |-> message]>>)

\* Lines 136-142: the loop over validation_result["results"], from result i
\* on. The outcome is [ok, list]: ok is FALSE when a subscript raised KeyError.
RECURSIVE FailedExpectations(_, _)
FailedExpectations(results, i) ==
    IF i > Len(results) THEN [ok |-> TRUE, list |-> <<>>]
    ELSE LET rest == FailedExpectations(results, i + 1)
             r    == results[i]
         IN  IF r.success THEN rest
             ELSE IF "expectation_config" \notin DOMAIN r
                  THEN [ok |-> FALSE, list |-> <<>>]
                  ELSE [ok |-> rest.ok,
                        list |-> << [expectation |-> r.expectation_config.expectation_type,
                                     kwargs |-> r.expectation_config.kwargs,
                                     result |-> r.result] >> \o rest.list]

\* Lines 125-144: reading the outcome.
ParseOutcome(expectation_suite_name, validation_result, now) ==
    IF "success" \notin DOMAIN validation_result THEN Caught("'success'")
    ELSE IF "statistics" \notin DOMAIN validation_result THEN Caught("'statistics'")
    ELSE LET passed  == validation_result.success
             summary == [suite_name |-> expectation_suite_name,
                         passed |-> passed,
                         timestamp |-> now,
                         statistics |-> validation_result.statistics,
                         failed_expectations |-> <<>>]
         IN  IF passed THEN Return(<<passed, summary>>)
             ELSE IF "results" \notin DOMAIN validation_result THEN Caught("'results'")
             ELSE LET failed == FailedExpectations(validation_result.results, 1)
                  IN  IF ~failed.ok THEN Caught("'expectation_config'")
                      ELSE Return(<<passed,
                                    [summary EXCEPT !.failed_expectations = failed.list]>>)

\* Lines 100-148. suites is the state of self.context.
validate_data_quality(suites, df, expectation_suite_name, env, now) ==
    IF env.fault = "batch_request" THEN Caught("invalid batch request")
    ELSE IF expectation_suite_name \notin DOMAIN suites
    THEN Caught("expectation suite not found")
    ELSE IF env.fault = "get_expectation_suite" THEN Caught("suite store unreadable")
    ELSE IF env.fault = "get_validator" THEN Caught("datasource not configured")
    ELSE IF env.fault = "validate" THEN Caught("validation run failed")
    ELSE ParseOutcome(expectation_suite_name,
                      ValidationOutcome(suites[expectation_suite_name],
                                        env.verdicts, env.shape),
                      now)

---------------------------------------------------------------------------
(* create_expectation_suite *)

\* Lines 280-288: a new suite replaces any of the same name, receives the
\* expectations in order, and is saved.
create_expectation_suite(suites, suite_name, expectations) ==
    [n \in DOMAIN suites \cup {suite_name} |->
        IF n = suite_name THEN expectations ELSE suites[n]]

---------------------------------------------------------------------------
(* generate_validation_report *)

\* r.get("passed", False)
GetPassed(r) == IF "passed" \in DOMAIN r THEN r.passed ELSE FALSE

\* A plausible slip: a record without the field counted on neither side.
CountFailed_strict(results) ==
    Cardinality({i \in 1..Len(results) :
                    "passed" \in DOMAIN results[i]
                    /\ ~results[i].passed})

\* Line 305.
CountPassed(results) ==
    Cardinality({i \in 1..Len(results) : GetPassed(results[i])})

\* Line 306.
CountFailed(results) ==
    Cardinality({i \in 1..Len(results) : ~GetPassed(results[i])})

\* Lines 302-308.
BuildReport(results, now) ==
    [timestamp |-> now,
     total_validations |-> Len(results),
     passed |-> CountPassed(results),
     failed |-> CountFailed(results),
     results |-> results]

---------------------------------------------------------------------------
(* Inputs of the suite check and of the report *)

SuiteNames == {"s1"}
ExpectationLists == { <<ExpectNotNull>>, <<ExpectNotNull, ExpectUnique>> }

Faults == {"none", "batch_request", "get_expectation_suite", "get_validator",
           "validate"}
Shapes == {"ok", "success", "statistics", "results", "no_expectation_config"}

SmallFrame ==
    Frame(<<"x">>, 1, [c \in {"x"} |->
            [dtype |-> s_float64, tz |-> "naive", values |-> <<Cell(1)>>]])

MaxResults == 3        \* longest list of results handed to the report

\* Records a caller may hand to the report: a passing result, a failing
\* result, and the {error} record of a failed delegation.
ResultPool ==
    { validate_schema(SmallFrame, <<"x">>, <<>>, T0).value,
      validate_schema(NoneDF, <<"x">>, <<>>, T0).value,
      Caught("expectation suite not found").value[2] }

\* One list of results: a failing statistical result, a failing freshness
\* result and an {error} record.
MixedResults ==
    << validate_statistical_properties(SmallFrame, <<"x">>,
           [c \in {"x"} |-> BoundsOn({"mean"}, NaN, Zero)], T0).value,
       validate_freshness(SmallFrame, "ts", DefaultMaxStaleness, T0, 0).value,
       Caught("expectation suite not found").value[2] >>

---------------------------------------------------------------------------
(* Construction *)

\* What the data context at context_root_dir may hold when it is opened:
\* nothing, or a suite saved by an earlier process.
InitialStores ==
    { <<>> } \cup { [n \in {"s1"} |-> e] : e \in ExpectationLists }

\* Lines 18-21. gx.get_context either yields the stored context, and the
\* object starts with no results, or raises, and then no object is made and
\* nothing can be called on it.
Init ==
    /\ validation_results = <<>>
    /\ report_sink = NoFile
    /\ \/ /\ context_suites \in InitialStores
          /\ pc = "idle"
          /\ call = NoCall
          /\ ret = NoRet
       \/ /\ context_suites = <<>>
          /\ pc = "no_object"
          /\ call = [op |-> "__init__"]
          /\ ret = Outcome("__init__", Raise("DataContextError"))

---------------------------------------------------------------------------
(* One call of each method, on given arguments *)

InvokeDtypeCompatible(actual, expected) ==
    /\ pc = "idle"
    /\ call' = [op |-> "_dtype_compatible", actual |-> actual,
                expected |-> expected]
    /\ ret' = Outcome("_dtype_compatible",
                       Return(_dtype_compatible(actual, expected)))
    /\ pc' = "returned"
    /\ UNCHANGED <<context_suites, validation_results, report_sink>>

InvokeValidateSchema(df, expected_columns, expected_dtypes) ==
    /\ pc = "idle"
    /\ call' = [op |-> "validate_schema", df |-> df,
                expected_columns |-> expected_columns,
                expected_dtypes |-> expected_dtypes, now |-> T0]
    /\ ret' = Outcome("validate_schema",
                       validate_schema(df, expected_columns, expected_dtypes, T0))
    /\ pc' = "returned"
    /\ UNCHANGED <<context_suites, validation_results, report_sink>>

InvokeValidateStatistical(df, numeric_columns, thresholds) ==
    /\ pc = "idle"
    /\ call' = [op |-> "validate_statistical_properties", df |-> df,
                numeric_columns |-> numeric_columns,
                thresholds |-> thresholds, now |-> T0]
    /\ ret' = Outcome("validate_statistical_properties",
                       validate_statistical_properties(df, numeric_columns,
                                                       thresholds, T0))
    /\ pc' = "returned"
    /\ UNCHANGED <<context_suites, validation_results, report_sink>>

InvokeValidateFreshness(df, timestamp_column, max_staleness_hours, local_offset) ==
    /\ pc = "idle"
    /\ call' = [op |-> "validate_freshness", df |-> df,
                timestamp_column |-> timestamp_column,
                max_staleness_hours |-> max_staleness_hours,
                now |-> T0, local_offset |-> local_offset]
    /\ ret' = Outcome("validate_freshness",
                       validate_freshness(df, timestamp_column,
                                          max_staleness_hours, T0, local_offset))
    /\ pc' = "returned"
    /\ UNCHANGED <<context_suites, validation_results, report_sink>>

InvokeValidateDataQuality(df, expectation_suite_name, env) ==
    /\ pc = "idle"
    /\ call' = [op |-> "validate_data_quality", df |-> df,
                expectation_suite_name |-> expectation_suite_name,
                env |-> env, now |-> T0]
    /\ ret' = Outcome("validate_data_quality",
                       validate_data_quality(context_suites, df,
                                             expectation_suite_name, env, T0))
    /\ pc' = "returned"
    /\ UNCHANGED <<context_suites, validation_results, report_sink>>

InvokeCreateExpectationSuite(suite_name, expectations) ==
    /\ pc = "idle"
    /\ call' = [op |-> "create_expectation_suite", suite_name |-> suite_name,
                expectations |-> expectations]
    /\ context_suites' = create_expectation_suite(context_suites, suite_name,
                                                  expectations)
    /\ ret' = Outcome("create_expectation_suite", Return(None))
    /\ pc' = "returned"
    /\ UNCHANGED <<validation_results, report_sink>>

\* Lines 302-313. open() raises OSError when the destination is not
\* writable, and then what the destination held stays; a write replaces it.
\* Nothing of the object changes either way.
InvokeGenerateValidationReport(results, writable) ==
    /\ pc = "idle"
    /\ call' = [op |-> "generate_validation_report", results |-> results,
                writable |-> writable, now |-> T0]
    /\ IF writable
       THEN /\ report_sink' = [exists |-> TRUE, content |-> BuildReport(results, T0)]
            /\ ret' = Outcome("generate_validation_report", Return(None))
       ELSE /\ report_sink' = report_sink
            /\ ret' = Outcome("generate_validation_report", Raise("OSError"))
    /\ pc' = "returned"
    /\ UNCHANGED <<context_suites, validation_results>>

\* The caller takes the outcome and is ready for its next call.
Continue ==
    /\ pc = "returned"
    /\ pc' = "idle"
    /\ call' = NoCall
    /\ ret' = NoRet
    /\ UNCHANGED <<context_suites, validation_results, report_sink>>

---------------------------------------------------------------------------
(* The caller, with the checks' arguments drawn from the wide sets: any    *)
(* sequence of calls on one object.                                        *)

CallDtypeCompatible ==
    /\ pc = "idle"
    /\ \E actual \in ActualPool, expected \in ExpectedPool :
           InvokeDtypeCompatible(actual, expected)

CallValidateSchema ==
    /\ pc = "idle"
    /\ \E df \in SchemaFrames,
          expected_columns \in SeqsUpTo(SchemaNames, MaxExpected),
          expected_dtypes \in ExpectedDtypeDicts :
           InvokeValidateSchema(df, expected_columns, expected_dtypes)

CallValidateStatistical ==
    /\ pc = "idle"
    /\ \E df \in StatFrames,
          numeric_columns \in NumericColumnLists,
          thresholds \in ThresholdDicts :
           InvokeValidateStatistical(df, numeric_columns, thresholds)

CallValidateFreshness ==
    /\ pc = "idle"
    /\ \E df \in FreshFrames,
          timestamp_column \in {"ts", "event_time"},
          max_staleness_hours \in {0, 1},
          local_offset \in LocalOffsets :
           InvokeValidateFreshness(df, timestamp_column, max_staleness_hours,
                                   local_offset)

\* max_staleness_hours left to its default (line 221).
CallValidateFreshnessDefault ==
    /\ pc = "idle"
    /\ \E df \in FreshFrames,
          timestamp_column \in {"ts", "event_time"},
          local_offset \in LocalOffsets :
           InvokeValidateFreshness(df, timestamp_column, DefaultMaxStaleness,
                                   local_offset)

CallValidateDataQuality ==
    /\ pc = "idle"
    /\ \E df \in {NoneDF, SmallFrame},
          expectation_suite_name \in SuiteNames \cup {"unknown"},
          fault \in Faults,
          shape \in Shapes,
          verdicts \in [1..2 -> BOOLEAN] :
           InvokeValidateDataQuality(df, expectation_suite_name,
               [fault |-> fault, shape |-> shape, verdicts |-> verdicts])

CallCreateExpectationSuite ==
    /\ pc = "idle"
    /\ \E suite_name \in SuiteNames, expectations \in ExpectationLists :
           InvokeCreateExpectationSuite(suite_name, expectations)

CallGenerateValidationReport ==
    /\ pc = "idle"
    /\ \E writable \in BOOLEAN :
           InvokeGenerateValidationReport(MixedResults, writable)

Next ==
    \/ CallDtypeCompatible
    \/ CallValidateSchema
    \/ CallValidateStatistical
    \/ CallValidateFreshness
    \/ CallValidateFreshnessDefault
    \/ CallValidateDataQuality
    \/ CallCreateExpectationSuite
    \/ CallGenerateValidationReport
    \/ Continue

Spec == Init /\ [][Next]_vars

---------------------------------------------------------------------------
(* The same caller, with the report's and the store's arguments drawn from *)
(* the wide sets and the checks' from a few: reports overwritten, suites   *)
(* created side by side, every method called after every other.            *)

SessionSuiteNames == {"s1", "s2"}

HourOldFrame ==
    Frame(<<"ts">>, 1, [c \in {"ts"} |->
            [dtype |-> s_datetime64_ns, tz |-> "naive",
             values |-> <<TsCell(HourAgo)>>]])

\* The collaborator failing at each of its calls, or answering in each shape.
SessionEnvs ==
    { [fault |-> f, shape |-> sh, verdicts |-> v] :
        f \in Faults, sh \in Shapes,
        v \in { [i \in 1..2 |-> TRUE], [i \in 1..2 |-> i = 2] } }

SessionDtypeCompatible ==
    /\ pc = "idle"
    /\ \E actual \in {s_int32, s_float64}, expected \in {s_int, s_float64} :
           InvokeDtypeCompatible(actual, expected)

SessionValidateSchema ==
    /\ pc = "idle"
    /\ \E df \in {NoneDF, SmallFrame},
          expected_columns \in { <<"x">>, <<"x", "w">> },
          expected_dtypes \in { <<>>, << <<"x", s_int>> >> } :
           InvokeValidateSchema(df, expected_columns, expected_dtypes)

SessionValidateStatistical ==
    /\ pc = "idle"
    /\ \E df \in {NoneDF, SmallFrame},
          thresholds \in { [c \in {} |-> <<>>],
                           [c \in {"x"} |-> BoundsOn({"mean"}, NaN, Zero)] } :
           InvokeValidateStatistical(df, <<"x">>, thresholds)

SessionValidateFreshness ==
    /\ pc = "idle"
    /\ \E df \in {NoneDF, SmallFrame, HourOldFrame},
          max_staleness_hours \in {0, 1, DefaultMaxStaleness} :
           InvokeValidateFreshness(df, "ts", max_staleness_hours, 0)

SessionValidateDataQuality ==
    /\ pc = "idle"
    /\ \E expectation_suite_name \in SessionSuiteNames \cup {"unknown"},
          env \in SessionEnvs :
           InvokeValidateDataQuality(SmallFrame, expectation_suite_name, env)

SessionCreateExpectationSuite ==
    /\ pc = "idle"
    /\ \E suite_name \in SessionSuiteNames, expectations \in ExpectationLists :
           InvokeCreateExpectationSuite(suite_name, expectations)

SessionGenerateValidationReport ==
    /\ pc = "idle"
    /\ \E results \in SeqsUpTo(ResultPool, MaxResults), writable \in BOOLEAN :
           InvokeGenerateValidationReport(results, writable)

SessionNext ==
    \/ SessionDtypeCompatible
    \/ SessionValidateSchema
    \/ SessionValidateStatistical
    \/ SessionValidateFreshness
    \/ SessionValidateDataQuality
    \/ SessionCreateExpectationSuite
    \/ SessionGenerateValidationReport
    \/ Continue

SpecSession == Init /\ [][SessionNext]_vars

---------------------------------------------------------------------------
(* Properties *)

Returned(op) == pc = "returned" /\ call.op = op

IsSubstring(needle, hay) ==
    \E i \in 1..(Len(hay) - Len(needle) + 1) :
        SubSeq(hay, i, i + Len(needle) - 1) = needle

\* The dataset of the call has rows and columns (pandas: not df.empty).
NonEmptyDataset == ~call.df.is_none /\ call.df.nrows > 0 /\ Len(call.df.columns) > 0

ExpectedMissing == {c \in Range(call.expected_columns) : c \notin Range(call.df.columns)}
ExpectedExtra   == {c \in Range(call.df.columns) : c \notin Range(call.expected_columns)}

ErrorsOfType(type) ==
    {i \in 1..Len(ret.value.errors) : ret.value.errors[i].type = type}

\* C1 (as stated): every result of the four checks has passed = false iff
\* its detail list (errors, violations, details.error, failed_expectations)
\* holds at least one entry.
C1_PassedIffAnyEntry ==
    /\ (Returned("validate_schema") /\ ret.kind = "return")
         => (ret.value.passed = FALSE <=> Len(ret.value.errors) > 0)
    /\ (Returned("validate_statistical_properties") /\ ret.kind = "return")
         => (ret.value.passed = FALSE <=> Len(ret.value.violations) > 0)
    /\ (Returned("validate_freshness") /\ ret.kind = "return")
         => (ret.value.passed = FALSE <=> "error" \in DOMAIN ret.value.details)
    /\ (Returned("validate_data_quality") /\ ret.kind = "return")
         => (ret.value[1] = FALSE <=>
               /\ "failed_expectations" \in DOMAIN ret.value[2]
               /\ Len(ret.value[2].failed_expectations) > 0)

\* C1 (amended): passed = false iff the detail list holds at least one entry
\* other than a schema unexpected_columns entry, or the result is the
\* (false, {error}) pair of a failed suite delegation.
C1_PassedIffFailingEntry ==
    /\ (Returned("validate_schema") /\ ret.kind = "return")
         => (ret.value.passed = FALSE <=>
               \E i \in 1..Len(ret.value.errors) :
                   ret.value.errors[i].type # "unexpected_columns")
    /\ (Returned("validate_statistical_properties") /\ ret.kind = "return")
         => (ret.value.passed = FALSE <=> Len(ret.value.violations) > 0)
    /\ (Returned("validate_freshness") /\ ret.kind = "return")
         => (ret.value.passed = FALSE <=> "error" \in DOMAIN ret.value.details)
    /\ (Returned("validate_data_quality") /\ ret.kind = "return")
         => IF DOMAIN ret.value[2] = {"error"}
            THEN ret.value[1] = FALSE
            ELSE /\ ret.value[2].passed = ret.value[1]
                 /\ ret.value[1] = FALSE <=>
                        Len(ret.value[2].failed_expectations) > 0

\* A schema result that passes although its errors list is not empty.
C1_Witness ==
    /\ Returned("validate_schema")
    /\ ret.kind = "return"
    /\ ret.value.passed
    /\ Len(ret.value.errors) > 0

\* C2: on a non-empty dataset that lacks some expected column,
\* validate_schema returns passed = false with exactly one missing_columns
\* entry, whose columns are expected_columns minus the dataset's columns.
C2_MissingColumnsReported ==
    (Returned("validate_schema") /\ NonEmptyDataset /\ ExpectedMissing # {})
      => /\ ret.kind = "return"
         /\ ret.value.passed = FALSE
         /\ Cardinality(ErrorsOfType("missing_columns")) = 1
         /\ \A i \in ErrorsOfType("missing_columns") :
                ret.value.errors[i].columns = ExpectedMissing

\* Two expected columns are missing while the dataset has a column of its own.
C2_Witness ==
    /\ Returned("validate_schema")
    /\ NonEmptyDataset
    /\ Cardinality(ExpectedMissing) = 2
    /\ ExpectedExtra # {}
    /\ ret.value.passed = FALSE

\* The declared columns present in the dataset whose dtype is incompatible.
IncompatibleDeclared ==
    {i \in 1..Len(call.expected_dtypes) :
        /\ call.expected_dtypes[i][1] \in Range(call.df.columns)
        /\ ~_dtype_compatible(call.df.col[call.expected_dtypes[i][1]].dtype,
                              call.expected_dtypes[i][2])}

\* C3: on a non-empty dataset validate_schema passes iff no expected column
\* is missing and no declared, present column has an incompatible dtype;
\* unexpected columns are recorded in an unexpected_columns entry and never
\* change passed.
C3_PassedIffNoMissingNoMismatch ==
    (Returned("validate_schema") /\ NonEmptyDataset)
      => /\ ret.kind = "return"
         /\ ret.value.passed <=> (ExpectedMissing = {} /\ IncompatibleDeclared = {})
         /\ ExpectedExtra # {} <=> ErrorsOfType("unexpected_columns") # {}
         /\ \A i \in ErrorsOfType("unexpected_columns") :
                ret.value.errors[i].columns = ExpectedExtra

\* A dataset with an unexpected column passes, the column recorded.
C3_Witness ==
    /\ Returned("validate_schema")
    /\ NonEmptyDataset
    /\ ExpectedExtra # {}
    /\ Len(call.expected_dtypes) > 0
    /\ ret.value.passed
    /\ ErrorsOfType("unexpected_columns") # {}

\* Some step of the delegation of the call fails: a collaborator raises, the
\* suite is not stored, or the outcome lacks a key that is read.
DelegationFails ==
    \/ call.env.fault # "none"
    \/ call.expectation_suite_name \notin DOMAIN context_suites
    \/ call.env.shape \in {"success", "statistics"}
    \/ /\ call.env.shape \in {"results", "no_expectation_config"}
       /\ \E i \in 1..Len(context_suites[call.expectation_suite_name]) :
              ~call.env.verdicts[i]

\* C4: whatever step of the delegation fails, validate_data_quality raises
\* nothing and returns (false, {"error": message}) with no other key.
C4_FailureBecomesErrorPair ==
    Returned("validate_data_quality")
      => /\ ret.kind = "return"
         /\ DelegationFails
              => /\ ret.value[1] = FALSE
                 /\ DOMAIN ret.value[2] = {"error"}

\* The outcome of a run lacks its results although an expectation failed.
C4_Witness ==
    /\ Returned("validate_data_quality")
    /\ call.env.fault = "none"
    /\ call.expectation_suite_name \in DOMAIN context_suites
    /\ call.env.shape = "results"
    /\ ~call.env.verdicts[1]
    /\ ret.kind = "return"
    /\ ret.value = <<FALSE, [error |-> "'results'"]>>

\* C5 (as stated): validate_schema, validate_statistical_properties and
\* validate_freshness return a result for every input and never raise.
C5_ChecksNeverRaise ==
    (pc = "returned" /\ call.op \in {"validate_schema",
                                     "validate_statistical_properties",
                                     "validate_freshness"})
      => ret.kind = "return"

RECURSIVE NumPassing(_)
NumPassing(results) ==
    IF results = <<>> THEN 0
    ELSE (IF "passed" \in DOMAIN Head(results) /\ Head(results).passed = TRUE
          THEN 1 ELSE 0) + NumPassing(Tail(results))

ReportWritten ==
    /\ pc = "returned"
    /\ call.op = "generate_validation_report"
    /\ ret.kind = "return"

\* C6: over N results of which P have passed = true the report written has
\* total_validations = N, passed = P and failed = N - P; a record without a
\* passed field counts as failed.
C6_ReportCounts ==
    ReportWritten
      => /\ report_sink.exists
         /\ report_sink.content.total_validations = Len(call.results)
         /\ report_sink.content.passed = NumPassing(call.results)
         /\ report_sink.content.failed = Len(call.results) - NumPassing(call.results)
         /\ report_sink.content.passed + report_sink.content.failed
              = report_sink.content.total_validations
         /\ report_sink.content.results = call.results

\* A report over three results: one passing, one failing, one {error} record.
C6_Witness ==
    /\ ReportWritten
    /\ Len(call.results) = 3
    /\ NumPassing(call.results) = 1
    /\ \E i \in 1..3 : "passed" \notin DOMAIN call.results[i]
    /\ \E i \in 1..3 : "passed" \in DOMAIN call.results[i] /\ ~call.results[i].passed
    /\ report_sink.content.failed = 2

\* The instants of the timestamp column of the call.
ColumnInstants ==
    LET values == call.df.col[call.timestamp_column].values
    IN  {values[i].t : i \in {j \in 1..Len(values) : values[j].kind = "ts"}}

\* The seconds from the latest timestamp of the column to the current time,
\* read on the clock the column is kept in.
SecondsStale ==
    (IF call.df.col[call.timestamp_column].tz = "naive"
     THEN call.now + call.local_offset ELSE call.now)
    - SetMax(ColumnInstants)

\* The column is there, its values parse, and the staleness is strictly
\* greater than the maximum.
ExceedsMaximum ==
    /\ call.timestamp_column \in Range(call.df.columns)
    /\ \A i \in 1..Len(call.df.col[call.timestamp_column].values) :
           call.df.col[call.timestamp_column].values[i].kind # "bad"
    /\ ColumnInstants # {}
    /\ SecondsStale > call.max_staleness_hours * SecondsPerHour

\* C7: for every dataset validate_freshness returns passed = false exactly
\* when the timestamp column is absent or the staleness is strictly greater
\* than max_staleness_hours; in both cases details.error is set, naming the
\* column when it is absent.
C7_StaleIffStrictlyOlder ==
    (Returned("validate_freshness") /\ ~call.df.is_none)
      => /\ (ret.kind = "return" /\ ret.value.passed = FALSE)
              <=> (call.timestamp_column \notin Range(call.df.columns) \/ ExceedsMaximum)
         /\ ret.kind = "return"
              => /\ ret.value.passed = FALSE <=> "error" \in DOMAIN ret.value.details
                 /\ call.timestamp_column \notin Range(call.df.columns)
                      => ret.value.details.error.column = call.timestamp_column

\* The latest timestamp is exactly max_staleness_hours old, and the check passes.
C7_Witness ==
    /\ Returned("validate_freshness")
    /\ ~call.df.is_none
    /\ call.timestamp_column \in Range(call.df.columns)
    /\ ColumnInstants # {}
    /\ call.max_staleness_hours > 0
    /\ SecondsStale = call.max_staleness_hours * SecondsPerHour
    /\ ret.kind = "return"
    /\ ret.value.passed

\* Column c of the call is looked at: it is in the dataset and has a
\* threshold entry.
Checked(c) == c \in Range(call.df.columns) /\ c \in DOMAIN call.thresholds

StatValue(c, s) == ColumnStats(call.df, c)[s]

\* The bound {s}_min of column c is given and the statistic is strictly below it.
BelowGivenMin(c, s) ==
    /\ FmtKey(s, "_min") \in DOMAIN call.thresholds[c]
    /\ Lt(StatValue(c, s), call.thresholds[c][FmtKey(s, "_min")])

\* The bound {s}_max of column c is given and the statistic is strictly above it.
AboveGivenMax(c, s) ==
    /\ FmtKey(s, "_max") \in DOMAIN call.thresholds[c]
    /\ Gt(StatValue(c, s), call.thresholds[c][FmtKey(s, "_max")])

Violating(c) ==
    Checked(c) /\ \E s \in Range(StatNames) : BelowGivenMin(c, s) \/ AboveGivenMax(c, s)

\* The elements of numeric_columns that are violating, in the list's order.
RECURSIVE ViolatingColumns(_)
ViolatingColumns(numeric_columns) ==
    IF numeric_columns = <<>> THEN <<>>
    ELSE (IF Violating(Head(numeric_columns)) THEN <<Head(numeric_columns)>> ELSE <<>>)
         \o ViolatingColumns(Tail(numeric_columns))

HasViolation(entry, s, type) ==
    \E j \in 1..Len(entry.violations) :
        entry.violations[j].stat = s /\ entry.violations[j].type = type

\* C8: for every listed column that is in the dataset and has a threshold
\* entry, and for each of the five statistics, a below_min violation is
\* recorded iff {stat}_min is given and the value is strictly below it, and
\* an above_max violation iff {stat}_max is given and the value is strictly
\* above it; the violations of the column form one entry; passed = false iff
\* some column has a violation; other columns contribute nothing.
C8_ViolationsAsBoundsSay ==
    (Returned("validate_statistical_properties") /\ ~call.df.is_none)
      => /\ ret.kind = "return"
         /\ LET V == ret.value.violations
                F == ViolatingColumns(call.numeric_columns)
            IN  /\ Len(V) = Len(F)
                /\ \A k \in 1..Len(V) :
                     /\ V[k].column = F[k]
                     /\ \A s \in Range(StatNames) :
                          /\ HasViolation(V[k], s, "below_min") <=> BelowGivenMin(F[k], s)
                          /\ HasViolation(V[k], s, "above_max") <=> AboveGivenMax(F[k], s)
                     /\ \A j \in 1..Len(V[k].violations) :
                          /\ V[k].violations[j].stat \in Range(StatNames)
                          /\ V[k].violations[j].type \in {"below_min", "above_max"}
                     /\ Cardinality({<<V[k].violations[j].stat, V[k].violations[j].type>> :
                                        j \in 1..Len(V[k].violations)})
                          = Len(V[k].violations)
                /\ ret.value.passed = FALSE <=> Len(V) > 0

\* One column breaks two bounds while another listed column is not in the dataset.
C8_Witness ==
    /\ Returned("validate_statistical_properties")
    /\ ret.kind = "return"
    /\ call.numeric_columns = <<"z", "x">>
    /\ Len(ret.value.violations) = 1
    /\ Len(ret.value.violations[1].violations) >= 2
    /\ \E s \in Range(StatNames) :
           /\ FmtKey(s, "_min") \in DOMAIN call.thresholds["x"]
           /\ StatValue("x", s) = call.thresholds["x"][FmtKey(s, "_min")]

\* C9: an undefined (NaN) statistic makes validate_statistical_properties
\* neither raise nor record a violation, whatever bounds are given; when no
\* defined statistic breaks a bound, passed stays true.
C9_UndefinedStatisticNeverViolates ==
    (Returned("validate_statistical_properties") /\ ~call.df.is_none)
      => /\ ret.kind = "return"
         /\ \A k \in 1..Len(ret.value.violations) :
              \A j \in 1..Len(ret.value.violations[k].violations) :
                  /\ ~ret.value.violations[k].violations[j].value.nan
                  /\ ~StatValue(ret.value.violations[k].column,
                                ret.value.violations[k].violations[j].stat).nan
         /\ (\A c \in Range(call.numeric_columns) : \A s \in Range(StatNames) :
                Checked(c) =>
                    \/ StatValue(c, s).nan
                    \/ ~(BelowGivenMin(c, s) \/ AboveGivenMax(c, s)))
              => ret.value.passed

\* A single-row column, std undefined, under both a std_min and a std_max bound.
C9_Witness ==
    /\ Returned("validate_statistical_properties")
    /\ ret.kind = "return"
    /\ call.numeric_columns = <<"x">>
    /\ "x" \in Range(call.df.columns)
    /\ call.df.nrows = 1
    /\ "x" \in DOMAIN call.thresholds
    /\ DOMAIN call.thresholds["x"] = {"std_min", "std_max"}
    /\ StatValue("x", "std").nan
    /\ ~StatValue("x", "mean").nan
    /\ ret.value.passed

FamilyOf(expected) ==
    {i \in 1..Len(dtype_mappings) : dtype_mappings[i].family = expected}

\* C10: _dtype_compatible(actual, expected) is true iff expected is one of
\* the five family names and actual contains one of that family's registered
\* representations, or expected is no family name and actual = expected;
\* (int32, int) is compatible and (float64, int) is not.
C10_DtypeCompatible ==
    /\ Returned("_dtype_compatible")
         => /\ ret.kind = "return"
            /\ ret.value <=>
                 IF call.expected \in {s_int, s_float, s_string, s_datetime, s_bool}
                 THEN \E i \in FamilyOf(call.expected) :
                        \E k \in 1..Len(dtype_mappings[i].dtypes) :
                            IsSubstring(dtype_mappings[i].dtypes[k], call.actual)
                 ELSE call.actual = call.expected
    /\ (Returned("_dtype_compatible") /\ call.actual = s_int32 /\ call.expected = s_int)
         => ret.value = TRUE
    /\ (Returned("_dtype_compatible") /\ call.actual = s_float64 /\ call.expected = s_int)
         => ret.value = FALSE

\* uint8 is taken for an int: it contains int8 without being a registered name.
C10_Witness ==
    /\ Returned("_dtype_compatible")
    /\ call.actual = s_uint8
    /\ call.expected = s_int
    /\ ret.value = TRUE

===========================================================================
